---- MODULE Spec2Model ----
(***************************************************************************)
(* EGX Auto-Trader dashboard: the App view (src/App.tsx) and the           *)
(* TradeVisualizer chart view (src/unnamed/part_000) bound to a remote     *)
(* document store by live-query listeners.                                 *)
(*                                                                         *)
(* The store is the environment: an external backend puts and deletes      *)
(* documents; a listener whose query result changed has a notification     *)
(* pending, and a notification delivers the query's current result.        *)
(* Every listener callback, with the state updates, the re-render and the  *)
(* effects it triggers, is one atomic step (single-threaded event loop).   *)
(***************************************************************************)
EXTENDS Integers, Sequences, FiniteSets

\* ------------------------------------------------------------------ bounds
\* Number of backend writes in one run.
MaxWrites == 1
\* Number of ticker changes the user makes in one run.
MaxTickerChanges == 1

\* ------------------------------------------------------- program constants
WatchedCount == 4
LatestPriceLimit == 1
RecentActionsLimit == 20
ChartPriceLimit == 100

\* ------------------------------------------------------------ data universe
\* Tickers in ascending code-unit order (the order Array.prototype.sort uses).
TickerOrder == <<"COMI", "EGX30", "HRHO">>

TickerRank(t) == CHOOSE i \in DOMAIN TickerOrder : TickerOrder[i] = t

\* String.prototype.startsWith('EGX') over the tickers of the universe.
StartsWithEGX(t) == t \in {"EGX30"}

\* PriceSymbol: ticker and close (name, changePct, volume are display only).
Sym(t, c) == [ticker |-> t, close |-> c]

\* PriceBatch documents the backend may put; doc is the document key, which
\* breaks ties of the orderBy field.
BatchUniverse ==
    { [doc |-> 1, batchId |-> "b1", createdAt |-> 60,
       symbols |-> <<Sym("HRHO", 20), Sym("COMI", 10), Sym("EGX30", 5)>>],
      [doc |-> 2, batchId |-> "b2", createdAt |-> 120,
       symbols |-> <<Sym("HRHO", 21)>>],
      [doc |-> 3, batchId |-> "b3", createdAt |-> 120,
       symbols |-> <<Sym("COMI", 12), Sym("HRHO", 22)>>] }

NoBatch == [doc |-> 0, batchId |-> "", createdAt |-> 0, symbols |-> <<>>]

\* TradeAction documents (id, batchId, date, ticker; the rest is display only).
ActionUniverse ==
    { [id |-> 1, batchId |-> "b1", date |-> 61, ticker |-> "COMI"],
      [id |-> 2, batchId |-> "b1", date |-> 62, ticker |-> "COMI"],
      [id |-> 3, batchId |-> "b3", date |-> 121, ticker |-> "HRHO"] }

NoAction == [id |-> 0, batchId |-> "", date |-> 0, ticker |-> ""]

\* PortfolioState documents (cash; equity is shown as stored).
PortfolioUniverse ==
    { [exists |-> TRUE, cash |-> 0], [exists |-> TRUE, cash |-> 100] }

NoDoc == [exists |-> FALSE, cash |-> 0]

\* PortfolioPosition documents.
PositionUniverse ==
    { [id |-> 1, ticker |-> "COMI", shares |-> 2, avgPrice |-> 8,
       marketPrice |-> 10, unrealizedPnL |-> 4],
      [id |-> 2, ticker |-> "HRHO", shares |-> 1, avgPrice |-> 25,
       marketPrice |-> 20, unrealizedPnL |-> -5] }

\* ------------------------------------------------------------ seq helpers
Take(s, n) == SubSeq(s, 1, IF Len(s) < n THEN Len(s) ELSE n)

\* Mutation of Reverse: the order left as delivered (newest first).
NotReversed(s) == s

\* Array.prototype.reverse()
Reverse(s) == [i \in 1..Len(s) |-> s[Len(s) + 1 - i]]

RECURSIVE SumSeq(_)
SumSeq(s) == IF s = <<>> THEN 0 ELSE Head(s) + SumSeq(Tail(s))

\* Mutation of FilterPresent: the null entries are kept.
FilterNothing(s) == s

\* Array.prototype.filter(d => d !== null), null modelled as a flag.
RECURSIVE FilterPresent(_)
FilterPresent(s) ==
    IF s = <<>> THEN <<>>
    ELSE IF Head(s).present THEN <<Head(s)>> \o FilterPresent(Tail(s))
         ELSE FilterPresent(Tail(s))

\* ------------------------------------------------------------ store queries
\* orderBy('createdAt', 'desc'): newest first, ties by document key.
Newer(a, b) ==
    \/ a.createdAt > b.createdAt
    \/ a.createdAt = b.createdAt /\ a.doc > b.doc

RECURSIVE OrderByCreatedAtDesc(_)
OrderByCreatedAtDesc(S) ==
    IF S = {} THEN <<>>
    ELSE LET m == CHOOSE x \in S : \A y \in S \ {x} : Newer(x, y)
         IN <<m>> \o OrderByCreatedAtDesc(S \ {m})

\* orderBy('date', 'asc'): oldest first, ties by document id.
Earlier(a, b) ==
    \/ a.date < b.date
    \/ a.date = b.date /\ a.id < b.id

RECURSIVE OrderByDateAsc(_)
OrderByDateAsc(S) ==
    IF S = {} THEN <<>>
    ELSE LET m == CHOOSE x \in S : \A y \in S \ {x} : Earlier(x, y)
         IN <<m>> \o OrderByDateAsc(S \ {m})

RECURSIVE OrderByDateDesc(_)
OrderByDateDesc(S) ==
    IF S = {} THEN <<>>
    ELSE LET m == CHOOSE x \in S : \A y \in S \ {x} : Earlier(y, x)
         IN <<m>> \o OrderByDateDesc(S \ {m})

\* A collection read without orderBy comes in document-key order.
RECURSIVE OrderById(_)
OrderById(S) ==
    IF S = {} THEN <<>>
    ELSE LET m == CHOOSE x \in S : \A y \in S \ {x} : x.id < y.id
         IN <<m>> \o OrderById(S \ {m})

\* App: doc(db, 'portfolio', 'state')
PortfolioStateDoc(port) == port

\* App: collection(db, 'portfolio', 'state', 'positions')
PositionsColl(pos) == OrderById(pos)

\* App: query(collection(db, 'prices'), orderBy('createdAt', 'desc'), limit(1))
LatestPriceQuery(prices) == Take(OrderByCreatedAtDesc(prices), LatestPriceLimit)

\* App: query(collection(db, 'actions'), orderBy('date', 'desc'), limit(20))
RecentActionsQuery(acts) == Take(OrderByDateDesc(acts), RecentActionsLimit)

\* TradeVisualizer: pricesQuery, the last 100 price batches, newest first.
pricesQuery(prices) == Take(OrderByCreatedAtDesc(prices), ChartPriceLimit)

\* TradeVisualizer: actionsQuery, the actions of one ticker, oldest first.
actionsQuery(acts, ticker) ==
    OrderByDateAsc({a \in acts : a.ticker = ticker})

\* ------------------------------------------------------------------ state
VARIABLES
    \* the remote store (written by the external backend only)
    dbPortfolio,        \* the portfolio/state document, or NoDoc
    dbPositions,        \* the positions collection
    dbPrices,           \* the prices collection
    dbActions,          \* the actions collection
    writes,             \* backend writes so far
    \* App (src/App.tsx)
    appMounted,
    portfolioState,     \* useState<PortfolioState | null>, null is NoDoc
    portfolioPositions, \* useState<PortfolioPosition[]>
    latestBatch,        \* useState<PriceBatch | null>, null is NoBatch
    tradeActions,       \* useState<TradeAction[]>
    loading,            \* useState(true)
    loadedCount,        \* let loadedCount = 0
    appSubs,            \* the listeners of `unsubscribers` still subscribed
    appPending,         \* App listeners with a notification pending
    appDelivered,       \* App listeners that delivered a snapshot (history)
    \* TradeVisualizer (src/unnamed/part_000)
    tvMounted,
    selectedTicker,     \* useState<string>('')
    chartData,          \* useState<ChartDataPoint[]>([])
    tvLoading,          \* useState(false)
    priceSubs,          \* subscribed pricesQuery listeners: [ticker, pending]
    actionSubs,         \* subscribed actionsQuery listeners:
                        \*   [ticker, prices, pending], prices as captured
    deliveredPrices,    \* the latest pricesQuery snapshot delivered (history)
    lastMerge,          \* the merge that last wrote chartData (history)
    changes             \* ticker changes so far

dbVars == <<dbPortfolio, dbPositions, dbPrices, dbActions, writes>>

appData == <<portfolioState, portfolioPositions, latestBatch, tradeActions>>

appVars == <<appMounted, portfolioState, portfolioPositions, latestBatch,
             tradeActions, loading, loadedCount, appSubs, appPending,
             appDelivered>>

tvVars == <<tvMounted, selectedTicker, chartData, tvLoading, priceSubs,
            actionSubs, deliveredPrices, lastMerge, changes>>

vars == <<dbVars, appVars, tvVars>>

collectionsToWatch ==
    {"portfolioState", "portfolioPositions", "prices", "tradeActions"}

\* lastMerge: the listener's ticker and captured batches, the actions it was
\* delivered, and the selection and latest price snapshot at that moment.
NoMerge == [done |-> FALSE, ticker |-> "", prices |-> <<>>, actions |-> <<>>,
            selected |-> "", latest |-> <<>>]

\* --------------------------------------------------- App: derived values
\* Mutation of Equity: positions valued at their average cost.
EquityAtCost(positions) ==
    SumSeq([i \in 1..Len(positions) |->
                positions[i].shares * positions[i].avgPrice])

\* useMemo: equity = sum of shares * marketPrice
Equity(positions) ==
    SumSeq([i \in 1..Len(positions) |->
                positions[i].shares * positions[i].marketPrice])

\* useMemo: totalPnl = sum of unrealizedPnL
TotalPnl(positions) ==
    SumSeq([i \in 1..Len(positions) |-> positions[i].unrealizedPnL])

\* useMemo: portfolioValue
portfolioValue ==
    IF ~portfolioState.exists \/ Len(portfolioPositions) = 0
    THEN (IF portfolioState.exists /\ portfolioState.cash # 0
          THEN portfolioState.cash ELSE 0)
    ELSE portfolioState.cash + Equity(portfolioPositions)

\* useMemo: dailyPnL
dailyPnL ==
    IF ~portfolioState.exists \/ Len(portfolioPositions) = 0
    THEN 0
    ELSE TotalPnl(portfolioPositions)

\* useMemo: dailyPnLPct = (totalPnl / (portfolioValue - totalPnl || 1)) * 100,
\* kept as the exact fraction num / den.
dailyPnLPct ==
    IF ~portfolioState.exists \/ Len(portfolioPositions) = 0
    THEN [num |-> 0, den |-> 1]
    ELSE LET base == portfolioValue - TotalPnl(portfolioPositions)
         IN [num |-> TotalPnl(portfolioPositions) * 100,
             den |-> IF base # 0 THEN base ELSE 1]

\* Array.prototype.sort() on tickers: insertion into ascending order.
RECURSIVE SortTickers(_)
SortTickers(s) ==
    IF s = <<>> THEN <<>>
    ELSE LET rest == SortTickers(Tail(s))
             h == Head(s)
             lo == SelectSeq(rest, LAMBDA t : TickerRank(t) < TickerRank(h))
             hi == SelectSeq(rest, LAMBDA t : ~(TickerRank(t) < TickerRank(h)))
         IN lo \o <<h>> \o hi

\* useMemo: availableTickers
availableTickersOf(batch) ==
    IF batch = NoBatch THEN <<>>
    ELSE SortTickers(SelectSeq([i \in 1..Len(batch.symbols) |->
                                    batch.symbols[i].ticker],
                               LAMBDA t : ~StartsWithEGX(t)))

availableTickers == availableTickersOf(latestBatch)

\* ------------------------------------------- TradeVisualizer: the merge
\* toLocaleTimeString(hour, minute) of createdAt.seconds: the minute of day.
TimeLabel(seconds) == (seconds \div 60) % 1440

\* new Map(actions.map(a => [a.batchId, a])).get(batchId): the last action
\* of the snapshot with that batchId, or undefined (NoAction).
actionsByBatchId(actions, batchId) ==
    LET hits == {i \in 1..Len(actions) : actions[i].batchId = batchId}
    IN IF hits = {} THEN NoAction
       ELSE actions[CHOOSE i \in hits : \A j \in hits : j <= i]

\* batch.symbols.find(s => s.ticker === selectedTicker): index, 0 if none.
FindSymbol(batch, ticker) ==
    LET hits == {i \in 1..Len(batch.symbols) : batch.symbols[i].ticker = ticker}
    IN IF hits = {} THEN 0 ELSE CHOOSE i \in hits : \A j \in hits : i <= j

\* prices.map(batch => ...): one entry per batch, null when the batch has no
\* quote of the ticker. `batch` remembers which batch the point came from.
MapBatch(batch, actions, ticker) ==
    LET k == FindSymbol(batch, ticker)
    IN IF k = 0
       THEN [present |-> FALSE, date |-> 0, close |-> 0, trade |-> NoAction,
             batch |-> batch.doc]
       ELSE [present |-> TRUE, date |-> TimeLabel(batch.createdAt),
             close |-> batch.symbols[k].close,
             trade |-> actionsByBatchId(actions, batch.batchId),
             batch |-> batch.doc]

\* mergedData = prices.map(...).filter(d => d !== null).reverse()
mergedData(prices, actions, ticker) ==
    Reverse(FilterPresent([i \in 1..Len(prices) |->
                               MapBatch(prices[i], actions, ticker)]))

\* ------------------------------------------------------------------- Init
\* App has just mounted: its effect subscribed the four listeners, each with
\* its first snapshot pending; TradeVisualizer is not rendered while loading.
\* The store holds whatever the backend wrote before.
InitViews ==
    /\ writes = 0
    /\ appMounted = TRUE
    /\ portfolioState = NoDoc
    /\ portfolioPositions = <<>>
    /\ latestBatch = NoBatch
    /\ tradeActions = <<>>
    /\ loading = TRUE
    /\ loadedCount = 0
    /\ appSubs = collectionsToWatch
    /\ appPending = collectionsToWatch
    /\ appDelivered = {}
    /\ tvMounted = FALSE
    /\ selectedTicker = ""
    /\ chartData = <<>>
    /\ tvLoading = FALSE
    /\ priceSubs = {}
    /\ actionSubs = {}
    /\ deliveredPrices = <<>>
    /\ lastMerge = NoMerge
    /\ changes = 0

\* Portfolio side: any portfolio document and positions, a store with or
\* without market data.
InitApp ==
    /\ dbPortfolio \in {NoDoc} \cup PortfolioUniverse
    /\ dbPositions \in SUBSET PositionUniverse
    /\ \E b \in BatchUniverse : dbPrices \in {{}, {b}}
    /\ \E a \in ActionUniverse : dbActions \in {{}, {a}}
    /\ InitViews

\* Chart side: App has received the first snapshot of each of its listeners
\* from a store holding any price batches and actions (no portfolio yet), so
\* it stopped loading and TradeVisualizer has just mounted and run its effects.
InitChart ==
    /\ dbPortfolio = NoDoc
    /\ dbPositions = {}
    /\ dbPrices \in SUBSET BatchUniverse
    /\ dbActions \in {{}, ActionUniverse}
    /\ writes = 0
    /\ appMounted = TRUE
    /\ portfolioState = NoDoc
    /\ portfolioPositions = <<>>
    /\ latestBatch = (IF dbPrices = {} THEN NoBatch
                      ELSE LatestPriceQuery(dbPrices)[1])
    /\ tradeActions = RecentActionsQuery(dbActions)
    /\ loading = FALSE
    /\ loadedCount = WatchedCount
    /\ appSubs = collectionsToWatch
    /\ appPending = {}
    /\ appDelivered = collectionsToWatch
    /\ tvMounted = TRUE
    /\ selectedTicker = (IF Len(availableTickers) > 0
                         THEN availableTickers[1] ELSE "")
    /\ chartData = <<>>
    /\ tvLoading = (selectedTicker # "")
    /\ priceSubs = (IF selectedTicker # ""
                    THEN {[ticker |-> selectedTicker, pending |-> TRUE]}
                    ELSE {})
    /\ actionSubs = {}
    /\ deliveredPrices = <<>>
    /\ lastMerge = NoMerge
    /\ changes = 0

\* ------------------------------------------------------ store notifications
\* The result an App listener's query has on a store content.
AppResult(l, port, pos, prices, acts) ==
    CASE l = "portfolioState" -> <<PortfolioStateDoc(port)>>
      [] l = "portfolioPositions" -> PositionsColl(pos)
      [] l = "prices" -> LatestPriceQuery(prices)
      [] OTHER -> RecentActionsQuery(acts)

\* onSnapshot: a subscribed listener whose query result changed is notified.
Notify(port, pos, prices, acts) ==
    /\ appPending' = appPending \cup
           {l \in appSubs :
               AppResult(l, port, pos, prices, acts) #
               AppResult(l, dbPortfolio, dbPositions, dbPrices, dbActions)}
    /\ priceSubs' =
           {[s EXCEPT !.pending = s.pending \/
                          pricesQuery(prices) # pricesQuery(dbPrices)] :
               s \in priceSubs}
    /\ actionSubs' =
           {[s EXCEPT !.pending = s.pending \/
                          actionsQuery(acts, s.ticker) #
                          actionsQuery(dbActions, s.ticker)] :
               s \in actionSubs}

BackendWrite(port, pos, prices, acts) ==
    /\ writes < MaxWrites
    /\ writes' = writes + 1
    /\ dbPortfolio' = port
    /\ dbPositions' = pos
    /\ dbPrices' = prices
    /\ dbActions' = acts
    /\ Notify(port, pos, prices, acts)
    /\ UNCHANGED <<appMounted, appData, loading, loadedCount, appSubs,
                   appDelivered>>
    /\ UNCHANGED <<tvMounted, selectedTicker, chartData, tvLoading,
                   deliveredPrices, lastMerge, changes>>

\* The backend sets or replaces the portfolio state document.
SetPortfolioDoc ==
    \E d \in PortfolioUniverse :
        /\ d # dbPortfolio
        /\ BackendWrite(d, dbPositions, dbPrices, dbActions)

\* The backend deletes the portfolio state document.
DeletePortfolioDoc ==
    /\ dbPortfolio # NoDoc
    /\ BackendWrite(NoDoc, dbPositions, dbPrices, dbActions)

PutPosition ==
    \E p \in PositionUniverse \ dbPositions :
        BackendWrite(dbPortfolio, dbPositions \cup {p}, dbPrices, dbActions)

DeletePosition ==
    \E p \in dbPositions :
        BackendWrite(dbPortfolio, dbPositions \ {p}, dbPrices, dbActions)

PutBatch ==
    \E b \in BatchUniverse \ dbPrices :
        BackendWrite(dbPortfolio, dbPositions, dbPrices \cup {b}, dbActions)

DeleteBatch ==
    \E b \in dbPrices :
        BackendWrite(dbPortfolio, dbPositions, dbPrices \ {b}, dbActions)

PutAction ==
    \E a \in ActionUniverse \ dbActions :
        BackendWrite(dbPortfolio, dbPositions, dbPrices, dbActions \cup {a})

DeleteAction ==
    \E a \in dbActions :
        BackendWrite(dbPortfolio, dbPositions, dbPrices, dbActions \ {a})

\* ------------------------------------------- TradeVisualizer: its effects
\* The second effect for a non-empty ticker: setLoading(true) and subscribe
\* the pricesQuery listener (its first snapshot pending).
SubscribeChart(ticker) ==
    /\ selectedTicker' = ticker
    /\ tvLoading' = TRUE
    /\ priceSubs' = {[ticker |-> ticker, pending |-> TRUE]}

\* A render of TradeVisualizer under App: mounted while App is not loading;
\* the first effect selects availableTickers[0] when nothing is selected,
\* and the re-render that follows runs the second effect.
RenderTradeVisualizer(mounted, avail) ==
    /\ tvMounted' = mounted
    /\ IF mounted /\ Len(avail) > 0 /\ selectedTicker = ""
       THEN SubscribeChart(avail[1])
       ELSE UNCHANGED <<selectedTicker, tvLoading, priceSubs>>
    /\ UNCHANGED <<chartData, actionSubs, deliveredPrices, lastMerge, changes>>

\* ------------------------------------------------------- App: its listeners
\* Mutation of AllLoaded: the comparison made strict.
AllLoadedStrict(count) == count > WatchedCount

\* loadedCount >= collectionsToWatch.length
AllLoaded(count) == count >= WatchedCount

\* checkAllLoaded(), then the render the state updates cause.
checkAllLoaded(l, batch) ==
    /\ loadedCount' = loadedCount + 1
    /\ loading' = IF AllLoaded(loadedCount + 1) THEN FALSE ELSE loading
    /\ appPending' = appPending \ {l}
    /\ appDelivered' = appDelivered \cup {l}
    /\ RenderTradeVisualizer(~loading', availableTickersOf(batch))
    /\ UNCHANGED <<dbVars, appMounted, appSubs>>

\* What the portfolio state listener stores for a document snapshot.
PortfolioStateAfter(docSnap) ==
    IF docSnap.exists THEN docSnap ELSE portfolioState

PortfolioStateSnapshot ==
    /\ "portfolioState" \in appPending
    /\ portfolioState' = PortfolioStateAfter(PortfolioStateDoc(dbPortfolio))
    /\ UNCHANGED <<portfolioPositions, latestBatch, tradeActions>>
    /\ checkAllLoaded("portfolioState", latestBatch)

PositionsSnapshot ==
    /\ "portfolioPositions" \in appPending
    /\ portfolioPositions' = PositionsColl(dbPositions)
    /\ UNCHANGED <<portfolioState, latestBatch, tradeActions>>
    /\ checkAllLoaded("portfolioPositions", latestBatch)

\* What the price listener stores for a query snapshot.
LatestBatchAfter(docs) ==
    IF Len(docs) > 0 THEN docs[1] ELSE latestBatch

LatestPriceSnapshot ==
    /\ "prices" \in appPending
    /\ latestBatch' = LatestBatchAfter(LatestPriceQuery(dbPrices))
    /\ UNCHANGED <<portfolioState, portfolioPositions, tradeActions>>
    /\ checkAllLoaded("prices", latestBatch')

RecentActionsSnapshot ==
    /\ "tradeActions" \in appPending
    /\ tradeActions' = RecentActionsQuery(dbActions)
    /\ UNCHANGED <<portfolioState, portfolioPositions, latestBatch>>
    /\ checkAllLoaded("tradeActions", latestBatch)

\* -------------------------------------------- TradeVisualizer: its listeners
\* The pricesQuery callback: keep the batches and subscribe a new actionsQuery
\* listener that captures them. The function it returns is not used by
\* onSnapshot, so the actions listener is never unsubscribed.
ChartPricesSnapshot ==
    \E s \in priceSubs :
        /\ s.pending
        /\ priceSubs' = {[s EXCEPT !.pending = FALSE]}
        /\ actionSubs' = actionSubs \cup
               {[ticker |-> s.ticker, prices |-> pricesQuery(dbPrices),
                 pending |-> TRUE]}
        /\ deliveredPrices' = pricesQuery(dbPrices)
        /\ UNCHANGED <<dbVars, appVars>>
        /\ UNCHANGED <<tvMounted, selectedTicker, chartData, tvLoading,
                       lastMerge, changes>>

\* The actionsQuery callback: merge and store. State updates of an unmounted
\* component are dropped.
ChartActionsSnapshot ==
    \E s \in actionSubs :
        /\ s.pending
        /\ actionSubs' = (actionSubs \ {s}) \cup {[s EXCEPT !.pending = FALSE]}
        /\ LET actions == actionsQuery(dbActions, s.ticker)
           IN IF tvMounted
              THEN /\ chartData' = mergedData(s.prices, actions, s.ticker)
                   /\ tvLoading' = FALSE
                   /\ lastMerge' = [done |-> TRUE, ticker |-> s.ticker,
                                    prices |-> s.prices, actions |-> actions,
                                    selected |-> selectedTicker,
                                    latest |-> deliveredPrices]
              ELSE UNCHANGED <<chartData, tvLoading, lastMerge>>
        /\ UNCHANGED <<dbVars, appVars>>
        /\ UNCHANGED <<tvMounted, selectedTicker, priceSubs, deliveredPrices,
                       changes>>

\* handleTickerChange: the select offers availableTickers; the second effect's
\* cleanup unsubscribes the pricesQuery listener, then the effect runs again.
handleTickerChange ==
    \E i \in 1..Len(availableTickers) :
        /\ tvMounted
        /\ availableTickers[i] # selectedTicker
        /\ changes < MaxTickerChanges
        /\ changes' = changes + 1
        /\ SubscribeChart(availableTickers[i])
        /\ UNCHANGED <<dbVars, appVars>>
        /\ UNCHANGED <<tvMounted, chartData, actionSubs, deliveredPrices,
                       lastMerge>>

\* ------------------------------------------------------------------ teardown
\* App unmounts (and TradeVisualizer under it): the effects' cleanups run.
Unmount ==
    /\ appMounted
    /\ appMounted' = FALSE
    /\ appSubs' = {}
    /\ appPending' = {}
    /\ tvMounted' = FALSE
    /\ priceSubs' = {}
    /\ UNCHANGED <<dbVars, appData, loading, loadedCount, appDelivered>>
    /\ UNCHANGED <<selectedTicker, chartData, tvLoading, actionSubs,
                   deliveredPrices, lastMerge, changes>>

\* The dashboard and the backend's writes of all four sources; the chart's
\* notifications are not yet delivered.
NextApp ==
    \/ SetPortfolioDoc
    \/ DeletePortfolioDoc
    \/ PutPosition
    \/ DeletePosition
    \/ PutBatch
    \/ DeleteBatch
    \/ PutAction
    \/ DeleteAction
    \/ PortfolioStateSnapshot
    \/ PositionsSnapshot
    \/ LatestPriceSnapshot
    \/ RecentActionsSnapshot
    \/ Unmount

SpecApp == InitApp /\ [][NextApp]_vars

\* Both views and the backend's writes of market data and actions.
NextChart ==
    \/ PutBatch
    \/ DeleteBatch
    \/ PutAction
    \/ DeleteAction
    \/ LatestPriceSnapshot
    \/ RecentActionsSnapshot
    \/ ChartPricesSnapshot
    \/ ChartActionsSnapshot
    \/ handleTickerChange
    \/ Unmount

SpecChart == InitChart /\ [][NextChart]_vars

\* ============================================================ properties
\* ------------------------------------------------------------- dashboard
\* Sum of shares * marketPrice over the positions at the given indices.
RECURSIVE MarketValueOf(_)
MarketValueOf(I) ==
    IF I = {} THEN 0
    ELSE LET i == CHOOSE k \in I : TRUE
         IN portfolioPositions[i].shares * portfolioPositions[i].marketPrice
            + MarketValueOf(I \ {i})

RECURSIVE UnrealizedPnLOf(_)
UnrealizedPnLOf(I) ==
    IF I = {} THEN 0
    ELSE LET i == CHOOSE k \in I : TRUE
         IN portfolioPositions[i].unrealizedPnL + UnrealizedPnLOf(I \ {i})

HeldPositions == DOMAIN portfolioPositions

\* C1: whenever a portfolio state record is held, the displayed portfolio
\* value is cash plus the sum over the held positions of shares * marketPrice
\* (cash alone when no position is held).
C1_PortfolioValue ==
    portfolioState.exists =>
        portfolioValue = portfolioState.cash + MarketValueOf(HeldPositions)

\* A record with cash and two positions is held after their snapshots.
C1_Witness ==
    /\ portfolioState.exists
    /\ portfolioState.cash = 100
    /\ Len(portfolioPositions) = 2
    /\ {"portfolioState", "portfolioPositions"} \subseteq appDelivered
    /\ portfolioValue = 140

\* Cost of the held positions: market value less unrealized profit/loss.
InvestedValue == MarketValueOf(HeldPositions) - UnrealizedPnLOf(HeldPositions)

\* C2: with a portfolio state record and at least one position held, the
\* displayed percentage pct satisfies pct * invested = 100 * total unrealized
\* PnL, invested being the cost of the positions without cash (invested # 0).
C2_PnLPctOfInvested ==
    (portfolioState.exists /\ Len(portfolioPositions) > 0 /\ InvestedValue # 0)
        => dailyPnLPct.num * InvestedValue
               = 100 * UnrealizedPnLOf(HeldPositions) * dailyPnLPct.den

\* C7: the loading flag is false only if each of the four listeners has
\* delivered at least one snapshot.
C7_LoadedOnlyWhenAllDelivered ==
    ~loading => appDelivered = collectionsToWatch

\* What the store currently answers to each App listener, as App would hold it.
StorePortfolioState == PortfolioStateDoc(dbPortfolio)

StoreLatestBatch ==
    IF LatestPriceQuery(dbPrices) = <<>> THEN NoBatch
    ELSE LatestPriceQuery(dbPrices)[1]

Settled(l) == appMounted /\ l \in appDelivered /\ l \notin appPending

\* C8: once a listener has delivered its latest snapshot (nothing newer is
\* pending), the data held for that source is that snapshot's content, also
\* when the record has disappeared or the collection is empty.
C8_HeldFollowsStore ==
    /\ Settled("portfolioState") => portfolioState = StorePortfolioState
    /\ Settled("portfolioPositions") =>
           portfolioPositions = PositionsColl(dbPositions)
    /\ Settled("prices") => latestBatch = StoreLatestBatch
    /\ Settled("tradeActions") => tradeActions = RecentActionsQuery(dbActions)

\* C10: as soon as each of the four listeners has delivered a snapshot the
\* loading flag is false, and once false it is never true again.
C10_LoadedStaysLoaded ==
    [][ /\ (appDelivered' = collectionsToWatch => ~loading')
        /\ (~loading => ~loading') ]_vars

\* All four listeners delivered, loading ended, and further snapshots arrived.
C10_Witness ==
    /\ appDelivered = collectionsToWatch
    /\ ~loading
    /\ loadedCount > WatchedCount

\* ------------------------------------------------------------------ chart
BatchOfDoc(d) == CHOOSE b \in BatchUniverse : b.doc = d

\* The batches of a price snapshot that hold a quote of the ticker.
QuotedIn(prices, ticker) ==
    {i \in 1..Len(prices) :
        \E k \in 1..Len(prices[i].symbols) :
            prices[i].symbols[k].ticker = ticker}

PointsOfBatch(d) == {j \in 1..Len(chartData) : chartData[j].batch = d}

\* C3 as stated: after every merge the chart has exactly one point for each
\* batch of the latest delivered price snapshot, whatever the selected ticker
\* and the content of the batches.
C3_OnePointPerBatch ==
    lastMerge.done =>
        /\ Len(chartData) = Len(lastMerge.latest)
        /\ \A i \in 1..Len(lastMerge.latest) :
               Cardinality(PointsOfBatch(lastMerge.latest[i].doc)) = 1

\* C3 as amended: after every merge the chart has exactly one point for each
\* batch, of the price snapshot captured by the listener that merged, that
\* holds a quote of that listener's ticker, and no point for any other batch;
\* the snapshot has at most 100 batches.
C3_OnePointPerQuotedBatch ==
    lastMerge.done =>
        /\ Len(lastMerge.prices) <= ChartPriceLimit
        /\ Len(chartData) =
               Cardinality(QuotedIn(lastMerge.prices, lastMerge.ticker))
        /\ \A i \in 1..Len(lastMerge.prices) :
               Cardinality(PointsOfBatch(lastMerge.prices[i].doc)) =
                   (IF i \in QuotedIn(lastMerge.prices, lastMerge.ticker)
                    THEN 1 ELSE 0)

\* A merge over a snapshot in which some batch has no quote of the ticker.
C3_Witness ==
    /\ lastMerge.done
    /\ Len(chartData) >= 1
    /\ Len(chartData) < Len(lastMerge.prices)

\* C4: the chart points are ordered oldest-to-newest by the creation time of
\* the batch behind each point.
C4_OldestToNewest ==
    \A i, j \in 1..Len(chartData) :
        i < j => BatchOfDoc(chartData[i].batch).createdAt
                     <= BatchOfDoc(chartData[j].batch).createdAt

\* A merge produced points of batches created at different times.
C4_Witness ==
    /\ lastMerge.done
    /\ Len(chartData) >= 2
    /\ BatchOfDoc(chartData[1].batch).createdAt
           < BatchOfDoc(chartData[Len(chartData)].batch).createdAt

\* The actions of a snapshot for a ticker and a batch identifier.
Matching(actions, ticker, batchId) ==
    {k \in 1..Len(actions) :
        actions[k].ticker = ticker /\ actions[k].batchId = batchId}

\* C5: after every merge each point's close is the selected ticker's close in
\* its batch, and the point carries a trade marker iff the latest actions
\* snapshot has an action of the selected ticker with the batch's batchId,
\* the marker being such an action.
C5_JoinedBySelectedTicker ==
    lastMerge.done =>
        \A j \in 1..Len(chartData) :
            LET b == BatchOfDoc(chartData[j].batch)
                m == Matching(lastMerge.actions, lastMerge.selected, b.batchId)
            IN /\ \E k \in 1..Len(b.symbols) :
                      /\ b.symbols[k].ticker = lastMerge.selected
                      /\ b.symbols[k].close = chartData[j].close
               /\ (chartData[j].trade # NoAction) <=> (m # {})
               /\ chartData[j].trade # NoAction =>
                      \E k \in m : lastMerge.actions[k] = chartData[j].trade

\* C6: after teardown no listener the views registered remains subscribed.
C6_NoListenerAfterTeardown ==
    ~appMounted => appSubs = {} /\ priceSubs = {} /\ actionSubs = {}

\* C9: when the chart is not loading, its data was merged by a listener of
\* the currently selected ticker.
C9_ChartOfSelectedTicker ==
    (tvMounted /\ ~tvLoading /\ lastMerge.done) =>
        lastMerge.ticker = selectedTicker

\* The options the ticker select offers.
SelectableTickers == {availableTickers[i] : i \in 1..Len(availableTickers)}

\* C11: while the chart view is mounted, a non-empty selected ticker is one
\* of the current available tickers (the non-EGX tickers of the latest price
\* batch, ascending), and with a non-empty list some ticker is selected.
C11_SelectedIsSelectable ==
    tvMounted =>
        /\ selectedTicker # "" => selectedTicker \in SelectableTickers
        /\ Len(availableTickers) > 0 => selectedTicker # ""

====
